---- MODULE Spec2Model ----
(***************************************************************************)
(* The YouTube delivery bot (Telegraf + ytdl-core): the text handler, the  *)
(* streaming delivery with its fallback and the download delivery, in the  *)
(* two revisions kept in the repository: "old" is src/index.js, "fixed"    *)
(* is src/unnamed/part_000.  Every awaited external call (Telegram, ytdl,  *)
(* the file system) is a step whose outcome is chosen by the environment;  *)
(* the synchronous code that follows an await up to the next await is part *)
(* of the same step, as on Node's single-threaded event loop.              *)
(***************************************************************************)
EXTENDS Integers, Sequences, FiniteSets, TLC

\* ------------------------------------------------------------- bounds
NumRequests == 2        \* messages the bot may be handling at once
MaxClock == 1           \* Date.now() ranges over 0..MaxClock
DurSpan == 1            \* durations StreamLimit-DurSpan .. StreamLimit+DurSpan
SizeSpan == 1           \* sizes SizeLimit-SizeSpan .. SizeLimit+SizeSpan bytes
MaxFails == 1           \* external calls that fail when the revisions are compared

\* ------------------------------------------------- program constants
StreamLimit == 120      \* duration <= 120
SizeLimitMB == 48       \* sizeMB > 48
MB == 1048576           \* 1024 * 1024
TitleLimit == 50        \* v.title.slice(0, 50)

Requests == 1..NumRequests
Revisions == {"old", "fixed"}
Clock == 0..MaxClock
Durations == {0} \cup ((StreamLimit - DurSpan)..(StreamLimit + DurSpan))
SizeLimit == SizeLimitMB * MB
Sizes == (SizeLimit - SizeSpan)..(SizeLimit + SizeSpan)

\* ---------------------------------------------------- pure functions
Min(a, b) == IF a <= b THEN a ELSE b

\* A message text is a sequence of tokens: " " is white space, any other
\* token is a run of non-blank characters.
Texts ==
    { <<"not-a-youtube-link">>,
      <<"https://youtu.be/dQw4w9WgXcQ">>,
      <<" ", "https://youtu.be/dQw4w9WgXcQ", " ">> }

RECURSIVE trimStart(_)
trimStart(s) ==
    IF s # <<>> /\ Head(s) = " " THEN trimStart(Tail(s)) ELSE s

RECURSIVE trimEnd(_)
trimEnd(s) ==
    IF s # <<>> /\ s[Len(s)] = " " THEN trimEnd(SubSeq(s, 1, Len(s) - 1)) ELSE s

\* ctx.message.text.trim()
trim(s) == trimEnd(trimStart(s))

\* ytdl.validateURL(url): the extraction library's local check
validateURL(url) == url = <<"https://youtu.be/dQw4w9WgXcQ">>

\* Titles the metadata may carry, as sequences of characters: short ones,
\* one made of path syntax, one of exactly TitleLimit characters and one of
\* TitleLimit + 1.
Alnum == {"a", "Z", "7"}
Titles ==
    { <<"a", "Z">>, <<"a", "/">>, <<"a", " ">>, <<"/", ".", ".", "/">>,
      [i \in 1..TitleLimit |-> "a"],
      [i \in 1..(TitleLimit + 1) |-> IF i <= TitleLimit THEN "7" ELSE "Z"] }

sliceInclusive(s, n) == SubSeq(s, 1, Min(Len(s), n + 1))

\* v.title.slice(0, 50)
slice(s, n) == SubSeq(s, 1, Min(Len(s), n))

sanitizeKeepPath(s) ==
    [i \in 1..Len(s) |-> IF s[i] \in Alnum \cup {"/", "."} THEN s[i] ELSE "_"]

\* title.replace(/[^a-z0-9]/gi, '_')
sanitize(s) == [i \in 1..Len(s) |-> IF s[i] \in Alnum THEN s[i] ELSE "_"]

\* the decimal digits of a number
RECURSIVE digits(_)
digits(n) == IF n < 10 THEN <<n>> ELSE Append(digits(n \div 10), n % 10)

\* a number interpolated into a template string
str(n) ==
    LET ch == <<"0", "1", "2", "3", "4", "5", "6", "7", "8", "9">>
    IN  [i \in 1..Len(digits(n)) |-> ch[digits(n)[i] + 1]]

\* `${Date.now()}-${title.replace(...)}.mp4`
filename(t, title) == str(t) \o <<"-">> \o sanitize(title) \o <<".", "m", "p", "4">>

\* a path string cut at its separators
RECURSIVE split(_)
split(s) ==
    IF \A i \in 1..Len(s) : s[i] # "/" THEN <<s>>
    ELSE LET i == CHOOSE k \in 1..Len(s) :
                      s[k] = "/" /\ \A j \in 1..(k - 1) : s[j] # "/"
         IN  <<SubSeq(s, 1, i - 1)>> \o split(SubSeq(s, i + 1, Len(s)))

\* path.normalize on segments: empty and "." segments go, ".." takes the
\* segment before it
RECURSIVE normalize(_)
normalize(segs) ==
    IF segs = <<>> THEN <<>>
    ELSE LET init == normalize(SubSeq(segs, 1, Len(segs) - 1))
             last == segs[Len(segs)]
         IN  IF last = <<>> \/ last = <<".">> THEN init
             ELSE IF last # <<".", ".">> THEN Append(init, last)
             ELSE IF init = <<>> \/ init[Len(init)] = <<".", ".">>
                  THEN Append(init, last)
                  ELSE SubSeq(init, 1, Len(init) - 1)

\* path.join(__dirname, 'temp'), as segments below __dirname
tempDirPath == << <<"t", "e", "m", "p">> >>

\* path.join(tempDir, filename)
filepath(t, title) == normalize(tempDirPath \o split(filename(t, title)))

NoPath == <<>>

\* v.lengthSeconds is a string of decimal digits (here a sequence of digits)
LengthSeconds == {digits(d) : d \in Durations}

\* Number(v.lengthSeconds)
RECURSIVE Number(_)
Number(ds) ==
    IF ds = <<>> THEN 0
    ELSE 10 * Number(SubSeq(ds, 1, Len(ds) - 1)) + ds[Len(ds)]

selectStreamStrict(duration) == duration < StreamLimit

\* duration <= 120 ? streamVideo : downloadVideo
selectStream(duration) == duration <= StreamLimit

tooLargeInclusive(size) == size >= SizeLimitMB * MB

\* sizeMB > 48, with sizeMB = stats.size / (1024 * 1024) (exact: a power of 2)
tooLarge(size) == size > SizeLimitMB * MB

\* rev: the revision that runs; now: the clock; disk: the files of tempDir;
\* req: the requests; inbox: the messages still to arrive; env: what the
\* users, YouTube and the operator may supply (texts, titles, durations,
\* media sizes, signals); tempDir: the scratch directory exists; handled: the
\* shutdown signals whose handler has run.  fate and base serve the comparison
\* of the two revisions: fate fixes in advance which external calls fail, base
\* is what the first revision's run ended with.
VARIABLES rev, now, disk, req, inbox, env, tempDir, handled, fate, base

vars == <<rev, now, disk, req, inbox, env, tempDir, handled, fate, base>>

NoFate == [fails |-> {}, early |-> FALSE]
NoRun == [first |-> "unknown"]

\* ------------------------------------------------------ the file system
exists(d, p) == p \in DOMAIN d

\* open(path, 'w'): creates the file, or truncates the one that is there
openW(d, p, r) ==
    [x \in DOMAIN d \cup {p} |->
        IF x = p
        THEN (IF exists(d, p) THEN [d[p] EXCEPT !.size = 0]
              ELSE [size |-> 0, creator |-> r])
        ELSE d[x]]

setSize(d, p, n) == [d EXCEPT ![p].size = n]

unlink(d, p) == [x \in DOMAIN d \ {p} |-> d[x]]

EmptyDisk == [x \in {} |-> [size |-> 0, creator |-> 0]]

\* ------------------------------------------------------- one request
NewRequest ==
    [ pc |-> "idle",
      text |-> <<>>, url |-> <<>>, title |-> <<>>, duration |-> 0,
      status |-> "none", stext |-> "none", nStatus |-> 0,
      argStatus |-> FALSE, dl |-> <<>>,
      path |-> NoPath, wopen |-> "none", measured |-> -1,
      nGetInfo |-> 0, nStream |-> 0, nDownload |-> 0, nMedia |-> 0,
      nSendStream |-> 0, nSendFile |-> 0, nSent |-> 0, nUnlink |-> 0,
      nTooLarge |-> 0, first |-> "none", streamFailed |-> FALSE,
      invalidReply |-> FALSE, notice |-> "none", floating |-> FALSE,
      errShown |-> FALSE, escaped |-> FALSE, faults |-> 0,
      caught |-> FALSE, hit |-> "none", vtitle |-> <<>>, shown |-> {} ]

FullEnv ==
    [texts |-> Texts, titles |-> Titles, lengths |-> LengthSeconds, sizes |-> Sizes,
     signals |-> {"SIGINT", "SIGTERM"}]

\* One message, any input.
Init ==
    /\ rev \in Revisions
    /\ now = 0
    /\ disk = EmptyDisk
    /\ req = [r \in Requests |-> NewRequest]
    /\ inbox = 1
    /\ env = FullEnv
    /\ tempDir = TRUE
    /\ handled = {}
    /\ fate = NoFate
    /\ base = NoRun

\* Concurrent messages: links to videos around the duration threshold whose
\* titles differ only in a character that the file name replaces.
ConcEnv ==
    [texts |-> {<<"not-a-youtube-link">>, <<"https://youtu.be/dQw4w9WgXcQ">>},
     titles |-> {<<"a", "/">>, <<"a", " ">>},
     lengths |-> {digits(StreamLimit), digits(StreamLimit + 1)},
     sizes |-> {SizeLimit, SizeLimit + 1},
     signals |-> {"SIGINT"}]

InitConc ==
    /\ rev \in Revisions
    /\ now = 0
    /\ disk = EmptyDisk
    /\ req = [r \in Requests |-> NewRequest]
    /\ inbox = NumRequests
    /\ env = ConcEnv
    /\ tempDir = TRUE
    /\ handled = {}
    /\ fate = NoFate
    /\ base = NoRun

\* One message about a video around the duration threshold, one signal.
LiveEnv == [ConcEnv EXCEPT !.titles = {<<"a", "Z">>}]

InitLive ==
    /\ rev \in Revisions
    /\ now = 0
    /\ disk = EmptyDisk
    /\ req = [r \in Requests |-> NewRequest]
    /\ inbox = 1
    /\ env = LiveEnv
    /\ tempDir = TRUE
    /\ handled = {}
    /\ fate = NoFate
    /\ base = NoRun

\* A step of the code works on s = [q |-> the request, d |-> the disk].

ErrorTexts == {"tooLarge", "downloadFailed", "processFailed"}
ProgressTexts == {"fetching", "preparing", "streaming", "downloading"}

\* The transport accepts an edit or a delete only of a message that exists.
msgExists(q) == q.status = "visible"

\* editMessageText resolved: the status message shows `text`
edited(q, text) ==
    [q EXCEPT !.stext = text, !.errShown = @ \/ text \in ErrorTexts]

\* a status text or a caption is built around `title`
show(s, title) == [s EXCEPT !.q.shown = @ \cup {title}]

\* deleteMessage resolved
deleted(q) == [q EXCEPT !.status = "deleted"]

\* An external call failed although it could have succeeded (a fault of the
\* network, of Telegram or of YouTube, not a consequence of the code's own
\* earlier steps).
fault(s) == [s EXCEPT !.q.faults = @ + 1]

\* An edit or delete of the status message was rejected.
rejected(s) == IF msgExists(s.q) THEN fault(s) ELSE s

\* The promise returned by the handler settles: rejected iff `threw`.
handlerReturn(s, threw) ==
    [s EXCEPT !.q.pc = "done", !.q.escaped = threw]

\* The handler's catch block: editMessageText(..., 'Failed to process video')
handlerCatch(s) == [s EXCEPT !.q.pc = "editProcessFailed", !.q.caught = TRUE]

downloadCatchReportFirst(s) ==
    IF s.q.argStatus
    THEN [s EXCEPT !.q.pc = "editDownloadFailed", !.q.caught = TRUE]
    ELSE handlerCatch(s)

\* downloadVideo's catch block (fixed revision): remove the file when it is
\* there, then editMessageText(..., 'Download failed'); statusMsg.message_id
\* throws a TypeError when statusMsg is undefined, and that leaves the function.
downloadCatch(s) ==
    LET there == exists(s.d, s.q.path)
        s0 == [s EXCEPT !.q.caught = TRUE]
        s1 == IF there
              THEN [s0 EXCEPT !.d = unlink(s.d, s.q.path), !.q.nUnlink = @ + 1]
              ELSE s0
    IN  IF s1.q.argStatus
        THEN [s1 EXCEPT !.q.pc = "editDownloadFailed"]
        ELSE handlerCatch(s1)

\* An exception raised in downloadVideo's body: the fixed revision catches it
\* in downloadVideo, the older one lets it reach the handler's catch.
downloadThrow(s) ==
    IF rev = "fixed" THEN downloadCatch(s) ELSE handlerCatch(s)

\* ytdl(url, ...), fs.createWriteStream(filepath), stream.pipe(write) and the
\* promise on 'error' / 'finish'. The write stream opens its file later.
startTransfer(s) ==
    [s EXCEPT !.q.nMedia = @ + 1, !.q.wopen = "pending", !.q.pc = "transfer"]

\* downloadVideo(ctx, url, title, duration, statusMsg) up to its first await
downloadVideo(s, url, title, duration, statusMsg) ==
    LET s1 == [s EXCEPT !.q.nDownload = @ + 1,
                        !.q.first = IF @ = "none" THEN "download" ELSE @,
                        !.q.dl = <<url, title, duration>>,
                        !.q.argStatus = statusMsg,
                        !.q.path = filepath(now, title)]
    IN  IF rev = "fixed"
        THEN (IF statusMsg
              THEN [show(s1, title) EXCEPT !.q.pc = "editDownloading"]
              ELSE downloadCatch(s1))
        ELSE startTransfer(s1)

\* ytdl(url, ...) and the call of sendVideo with the live stream
sendStream(s) ==
    [show(s, s.q.title) EXCEPT !.q.nSendStream = @ + 1, !.q.pc = "sendStream"]

\* streamVideo(ctx, url, title, duration, statusMsg) up to its first await
streamVideo(s) ==
    LET s1 == [s EXCEPT !.q.nStream = @ + 1,
                        !.q.first = IF @ = "none" THEN "stream" ELSE @]
    IN  IF rev = "fixed"
        THEN [show(s1, s1.q.title) EXCEPT !.q.pc = "editStreaming"]
        ELSE sendStream(s1)

streamCatchRetry(s) == streamVideo([s EXCEPT !.q.streamFailed = TRUE])

\* streamVideo's catch block: the older revision calls downloadVideo with the
\* status message; the fixed one deletes the status message first.
streamCatch(s) ==
    LET s1 == [s EXCEPT !.q.streamFailed = TRUE]
    IN  IF rev = "fixed"
        THEN [s1 EXCEPT !.q.pc = "deleteInCatch"]
        ELSE downloadVideo(s1, s1.q.url, s1.q.title, s1.q.duration, TRUE)

\* if (duration <= 120) streamVideo(...) else downloadVideo(...)
dispatch(s) ==
    IF selectStream(s.q.duration)
    THEN streamVideo(s)
    ELSE downloadVideo(s, s.q.url, s.q.title, s.q.duration, TRUE)

\* After 'finish': statSync, the size check, and either the rejection of an
\* oversize file or the call of sendVideo with the file.
afterFinish(s) ==
    IF ~exists(s.d, s.q.path)
    THEN downloadThrow(s)
    ELSE LET size == s.d[s.q.path].size
             s1 == [s EXCEPT !.q.measured = size]
         IN  IF tooLarge(size)
             THEN [s1 EXCEPT !.d = unlink(s.d, s.q.path),
                             !.q.nUnlink = @ + 1,
                             !.q.nTooLarge = @ + 1,
                             !.q.pc = "editTooLarge"]
             ELSE [show(s1, s1.q.dl[2]) EXCEPT !.q.nSendFile = @ + 1,
                                               !.q.pc = "sendFile"]

\* After the upload: fs.unlinkSync(filepath) (it throws when the file is not
\* there), then the call of deleteMessage.
afterUpload(s) ==
    IF ~exists(s.d, s.q.path)
    THEN downloadThrow(s)
    ELSE [s EXCEPT !.d = unlink(s.d, s.q.path),
                   !.q.nUnlink = @ + 1,
                   !.q.pc = "deleteAfterFile"]

\* --------------------------------------------------------------- steps
\* The state a step of request r starts from, and the state it leaves.
at(r) == [q |-> req[r], d |-> disk]

commit(r, s) ==
    /\ req' = [req EXCEPT ![r] = s.q]
    /\ disk' = s.d
    /\ UNCHANGED <<rev, now, env, tempDir, handled, fate, base>>

onTextUnchecked(s) == [s EXCEPT !.q.pc = "replyStatus"]

\* The handler up to its first await: an invalid link is answered with
\* ctx.reply('Invalid YouTube link'), a valid one with the status message.
onText(s) ==
    IF ~validateURL(s.q.url)
    THEN [s EXCEPT !.q.pc = "replyInvalid"]
    ELSE [s EXCEPT !.q.pc = "replyStatus"]

\* A text message arrives: url = ctx.message.text.trim()
Receive(r) ==
    /\ req[r].pc = "idle"
    /\ inbox > 0
    /\ handled = {}
    /\ \A x \in Requests : x < r => req[x].pc # "idle"
    /\ inbox' = inbox - 1
    /\ \E text \in env.texts :
         commit(r, onText([at(r) EXCEPT !.q.text = text, !.q.url = trim(text)]))

\* return ctx.reply('Invalid YouTube link') settles
ReplyInvalidDone(r) ==
    /\ req[r].pc = "replyInvalid"
    /\ UNCHANGED inbox
    /\ \E ok \in BOOLEAN :
         commit(r, IF ok
                   THEN handlerReturn([at(r) EXCEPT !.q.invalidReply = TRUE], FALSE)
                   ELSE handlerReturn(fault(at(r)), TRUE))

\* statusMsg = await ctx.reply('Fetching video info...'), outside the try;
\* then the call of ytdl.getInfo(url)
ReplyStatusDone(r) ==
    /\ req[r].pc = "replyStatus"
    /\ UNCHANGED inbox
    /\ \E ok \in BOOLEAN :
         commit(r, IF ok
                   THEN [at(r) EXCEPT !.q.status = "visible",
                                      !.q.stext = "fetching",
                                      !.q.nStatus = @ + 1,
                                      !.q.nGetInfo = @ + 1,
                                      !.q.pc = "getInfo"]
                   ELSE handlerReturn(fault(at(r)), TRUE))

\* await ytdl.getInfo(url) settles; title and duration; the call of
\* editMessageText with the 'Preparing video' ('Downloading' in the older
\* revision) text
GetInfoDone(r) ==
    /\ req[r].pc = "getInfo"
    /\ UNCHANGED inbox
    /\ \/ \E t \in env.titles, lengthSeconds \in env.lengths :
            commit(r, [show(at(r), slice(t, TitleLimit))
                         EXCEPT !.q.vtitle = t,
                                !.q.title = slice(t, TitleLimit),
                                !.q.duration = Number(lengthSeconds),
                                !.q.pc = "editPreparing"])
       \/ commit(r, handlerCatch(fault(at(r))))

\* that editMessageText settles; the handler picks the delivery
EditPreparingDone(r) ==
    /\ req[r].pc = "editPreparing"
    /\ UNCHANGED inbox
    /\ \E ok \in BOOLEAN :
         /\ ok => msgExists(req[r])
         /\ commit(r, IF ok
                      THEN dispatch([at(r) EXCEPT !.q =
                               edited(@, IF rev = "fixed" THEN "preparing"
                                                          ELSE "downloading")])
                      ELSE handlerCatch(rejected(at(r))))

\* streamVideo (fixed revision): editMessageText('Streaming...') settles
EditStreamingDone(r) ==
    /\ req[r].pc = "editStreaming"
    /\ UNCHANGED inbox
    /\ \E ok \in BOOLEAN :
         /\ ok => msgExists(req[r])
         /\ commit(r, IF ok
                      THEN sendStream([at(r) EXCEPT !.q = edited(@, "streaming")])
                      ELSE streamCatch(rejected(at(r))))

\* streamVideo: sendVideo(stream) settles; then the call of deleteMessage
SendStreamDone(r) ==
    /\ req[r].pc = "sendStream"
    /\ UNCHANGED inbox
    /\ \E ok \in BOOLEAN :
         commit(r, IF ok
                   THEN [at(r) EXCEPT !.q.nSent = @ + 1,
                                      !.q.pc = "deleteAfterStream"]
                   ELSE streamCatch(fault(at(r))))

\* streamVideo: deleteMessage settles; ctx.reply('streamed successfully') is
\* not awaited, so its rejection is nobody's to catch
DeleteAfterStreamDone(r) ==
    /\ req[r].pc = "deleteAfterStream"
    /\ UNCHANGED inbox
    /\ \E ok \in BOOLEAN, lost \in BOOLEAN :
         /\ ok => msgExists(req[r])
         /\ ~ok => ~lost
         /\ commit(r, IF ok
                      THEN handlerReturn(
                               [at(r) EXCEPT !.q = deleted(@),
                                             !.q.notice = "streamed",
                                             !.q.floating = lost], FALSE)
                      ELSE streamCatch(rejected(at(r))))

\* streamVideo's catch (fixed revision): deleteMessage settles; then
\* downloadVideo(ctx, url, title, duration) without the status message
DeleteInCatchDone(r) ==
    /\ req[r].pc = "deleteInCatch"
    /\ UNCHANGED inbox
    /\ \E ok \in BOOLEAN :
         /\ ok => msgExists(req[r])
         /\ commit(r, IF ok
                      THEN downloadVideo([at(r) EXCEPT !.q = deleted(@)],
                               req[r].url, req[r].title, req[r].duration, FALSE)
                      ELSE handlerCatch(rejected(at(r))))

\* downloadVideo (fixed revision): editMessageText('Downloading...') settles
EditDownloadingDone(r) ==
    /\ req[r].pc = "editDownloading"
    /\ UNCHANGED inbox
    /\ \E ok \in BOOLEAN :
         /\ ok => msgExists(req[r])
         /\ commit(r, IF ok
                      THEN startTransfer([at(r) EXCEPT !.q = edited(@, "downloading")])
                      ELSE downloadCatch(rejected(at(r))))

\* The write stream's open completes, some time after createWriteStream
\* returned: the file appears on disk, or the stream emits 'error' (always
\* so when the directory is gone).
FileOpen(r) ==
    /\ req[r].wopen = "pending"
    /\ UNCHANGED inbox
    /\ \E ok \in BOOLEAN :
         /\ ok => tempDir
         /\ commit(r, IF ok
                      THEN [at(r) EXCEPT !.d = openW(disk, req[r].path, r),
                                         !.q.wopen = "open"]
                      ELSE LET s0 == IF tempDir THEN fault(at(r)) ELSE at(r)
                               s == [s0 EXCEPT !.q.wopen = "failed"]
                           IN  IF req[r].pc = "transfer" THEN downloadThrow(s) ELSE s)

\* write 'finish': the media is on disk; statSync and the size check follow
TransferFinish(r) ==
    /\ req[r].pc = "transfer"
    /\ req[r].wopen = "open"
    /\ UNCHANGED inbox
    /\ \E size \in env.sizes :
         commit(r, afterFinish(
             IF exists(disk, req[r].path)
             THEN [at(r) EXCEPT !.d = setSize(disk, req[r].path, size)]
             ELSE at(r)))

\* stream 'error' (at any time) or write 'error' while writing
TransferError(r) ==
    /\ req[r].pc = "transfer"
    /\ UNCHANGED inbox
    /\ commit(r, downloadThrow(fault(at(r))))

\* downloadVideo: editMessageText('Video too large') settles
EditTooLargeDone(r) ==
    /\ req[r].pc = "editTooLarge"
    /\ UNCHANGED inbox
    /\ \E ok \in BOOLEAN :
         /\ ok => msgExists(req[r])
         /\ commit(r, IF ok
                      THEN handlerReturn([at(r) EXCEPT !.q = edited(@, "tooLarge")],
                                         FALSE)
                      ELSE downloadThrow(rejected(at(r))))

\* downloadVideo: sendVideo({source: filepath}) settles. The upload reads
\* the file through the stream it opened when it was called, so a later
\* unlink of the path does not stop it.
SendFileDone(r) ==
    /\ req[r].pc = "sendFile"
    /\ UNCHANGED inbox
    /\ \E ok \in BOOLEAN :
         commit(r, IF ok
                   THEN afterUpload([at(r) EXCEPT !.q.nSent = @ + 1])
                   ELSE downloadThrow(fault(at(r))))

\* downloadVideo: deleteMessage settles; ctx.reply('Downloaded & sent') is
\* not awaited
DeleteAfterFileDone(r) ==
    /\ req[r].pc = "deleteAfterFile"
    /\ UNCHANGED inbox
    /\ \E ok \in BOOLEAN, lost \in BOOLEAN :
         /\ ok => msgExists(req[r])
         /\ ~ok => ~lost
         /\ commit(r, IF ok
                      THEN handlerReturn(
                               [at(r) EXCEPT !.q = deleted(@),
                                             !.q.notice = "downloaded",
                                             !.q.floating = lost], FALSE)
                      ELSE downloadThrow(rejected(at(r))))

\* downloadVideo's catch (fixed revision): editMessageText('Download failed')
EditDownloadFailedDone(r) ==
    /\ req[r].pc = "editDownloadFailed"
    /\ UNCHANGED inbox
    /\ \E ok \in BOOLEAN :
         /\ ok => msgExists(req[r])
         /\ commit(r, IF ok
                      THEN handlerReturn(
                               [at(r) EXCEPT !.q = edited(@, "downloadFailed")], FALSE)
                      ELSE handlerCatch(rejected(at(r))))

\* the handler's catch: editMessageText('Failed to process video') settles;
\* its rejection leaves the handler
EditProcessFailedDone(r) ==
    /\ req[r].pc = "editProcessFailed"
    /\ UNCHANGED inbox
    /\ \E ok \in BOOLEAN :
         /\ ok => msgExists(req[r])
         /\ commit(r, IF ok
                      THEN handlerReturn(
                               [at(r) EXCEPT !.q = edited(@, "processFailed")], FALSE)
                      ELSE handlerReturn(rejected(at(r)), TRUE))

\* Time passes.
Tick ==
    /\ now < MaxClock
    /\ now' = now + 1
    /\ UNCHANGED <<rev, disk, req, inbox, env, tempDir, handled, fate, base>>

shutdownKeepDir(fs) == fs

\* if (fs.existsSync(tempDir)) fs.rmSync(tempDir, { recursive: true })
shutdown(fs) ==
    IF fs.dir THEN [dir |-> FALSE, files |-> EmptyDisk] ELSE fs

\* where a request stands when a signal arrives
inFlight(q) ==
    IF q.pc \in {"idle", "done"} THEN q.hit
    ELSE IF q.pc \in {"editDownloading", "transfer", "sendFile"} THEN "download"
    ELSE IF q.hit = "none" THEN "other" ELSE q.hit

\* process.once('SIGINT' / 'SIGTERM', ...): the scratch directory is removed
\* and bot.stop() ends the polling; handlers already running go on.
Signal ==
    /\ \E sig \in env.signals \ handled :
         LET fs == shutdown([dir |-> tempDir, files |-> disk])
         IN  /\ handled' = handled \cup {sig}
             /\ tempDir' = fs.dir
             /\ disk' = fs.files
    /\ req' = [r \in Requests |-> [req[r] EXCEPT !.hit = inFlight(req[r])]]
    /\ UNCHANGED <<rev, now, inbox, env, fate, base>>

Step(r) ==
    \/ Receive(r)
    \/ ReplyInvalidDone(r)
    \/ ReplyStatusDone(r)
    \/ GetInfoDone(r)
    \/ EditPreparingDone(r)
    \/ EditStreamingDone(r)
    \/ SendStreamDone(r)
    \/ DeleteAfterStreamDone(r)
    \/ DeleteInCatchDone(r)
    \/ EditDownloadingDone(r)
    \/ FileOpen(r)
    \/ TransferFinish(r)
    \/ TransferError(r)
    \/ EditTooLargeDone(r)
    \/ SendFileDone(r)
    \/ DeleteAfterFileDone(r)
    \/ EditDownloadFailedDone(r)
    \/ EditProcessFailedDone(r)

Next == Tick \/ Signal \/ \E r \in Requests : Step(r)

Spec == Init /\ [][Next]_vars

SpecConc == InitConc /\ [][Next]_vars

\* the files on disk that request r created
filesOf(r) == {p \in DOMAIN disk : disk[p].creator = r}

\* the steps at which an editMessageText or deleteMessage of the status
\* message is awaited
StatusCalls ==
    {"editPreparing", "editStreaming", "deleteAfterStream", "deleteInCatch",
     "editDownloading", "editTooLarge", "deleteAfterFile",
     "editDownloadFailed", "editProcessFailed"}

\* ---------------------------------------------- the two revisions compared
\* The external calls both revisions make, by the step that awaits them;
\* "open" is the open of the write stream.
Calls ==
    {"replyInvalid", "replyStatus", "getInfo", "editPreparing", "sendStream",
     "deleteAfterStream", "transfer", "sendFile", "deleteAfterFile",
     "editTooLarge", "editDownloadFailed", "editProcessFailed", "open"}

Fates ==
    [fails : {F \in SUBSET Calls : Cardinality(F) <= MaxFails}, early : BOOLEAN]

\* One message and one outcome for every external call, fixed in advance; the
\* older revision handles the message first.
InitPair ==
    /\ rev = "old"
    /\ now = 0
    /\ disk = EmptyDisk
    /\ req = [r \in Requests |-> NewRequest]
    /\ inbox = 1
    /\ \E text \in ConcEnv.texts, lengthSeconds \in ConcEnv.lengths,
          size \in ConcEnv.sizes :
         env = [texts |-> {text}, titles |-> {<<"a", "Z">>},
                lengths |-> {lengthSeconds}, sizes |-> {size}, signals |-> {}]
    /\ tempDir = TRUE
    /\ handled = {}
    /\ fate \in Fates
    /\ base = NoRun

\* how the status message of a request stands
statusKind(q) ==
    IF q.status # "visible" THEN q.status
    ELSE IF q.stext \in ErrorTexts THEN "error" ELSE "progress"

\* what a run is compared by: the delivery paths tried and their order, the
\* videos delivered, a temp file left behind, the status message
summary(q, left) ==
    [first |-> q.first, nStream |-> q.nStream, nDownload |-> q.nDownload,
     nSent |-> q.nSent, left |-> left, status |-> statusKind(q)]

\* request r has nothing more to do, its write stream included
quiet(r) == req[r].pc = "done" /\ req[r].wopen # "pending"

\* A step of request r goes the way fate says: the call it awaited fails
\* exactly if fate lists it (or the code itself made it impossible), a failed
\* transfer fails before the file is opened exactly if fate says so; the calls
\* that only the fixed revision makes succeed.
Agree(r) ==
    LET q == req[r]
        q2 == req'[r]
        key == IF q.wopen = "pending" /\ q2.wopen # "pending" THEN "open" ELSE q.pc
        failed == q2.faults > q.faults
        forced == key \in StatusCalls /\ ~msgExists(q)
    IN  /\ failed => key \in fate.fails
        /\ (key \in fate.fails /\ ~failed) => forced
        /\ (key = "transfer" /\ failed) => ((q.wopen = "pending") = fate.early)
        /\ (key = "open" /\ q.pc = "transfer") =>
              ~("transfer" \in fate.fails /\ fate.early)

Play(r) == Step(r) /\ Agree(r)

\* The fixed revision is deployed on a clean directory and gets the same
\* message.
Redeploy ==
    /\ rev = "old" /\ inbox = 0 /\ quiet(1)
    /\ base' = summary(req[1], filesOf(1) # {})
    /\ rev' = "fixed"
    /\ disk' = EmptyDisk
    /\ inbox' = 1
    /\ UNCHANGED <<now, req, env, tempDir, handled, fate>>

NextPair == Redeploy \/ \E r \in Requests : Play(r)

SpecPair == InitPair /\ [][NextPair]_vars

\* Every external call eventually settles and the pipe eventually emits
\* 'finish' or 'error': no request stays for ever before a step it can take.
SpecLive == InitLive /\ [][Next]_vars /\ \A r \in Requests : WF_vars(Step(r))

\* ============================================================== claims
resolved(q) == q.pc = "done"

\* C1: a failed streaming attempt is followed by exactly one call of
\* downloadVideo with the same url, title and duration (looked at for requests
\* that met at most two faults); streamVideo runs at most once per request
\* and never after downloadVideo.
C1_FallbackExactlyOnce ==
    \A r \in Requests :
        LET q == req[r]
        IN  /\ q.nStream <= 1
            /\ (q.first = "download" => q.nStream = 0)
            /\ (resolved(q) /\ q.streamFailed /\ q.faults <= 2 =>
                   /\ q.nDownload = 1
                   /\ q.dl = <<q.url, q.title, q.duration>>)

\* C2: in the fixed revision, a request whose streaming attempt failed and
\* that met no other fault and no oversize file resolves as Downloaded: the
\* fallback opened the media stream, sent the file, and no error text was shown.
C2_FallbackDelivers ==
    \A r \in Requests :
        LET q == req[r]
        IN  (/\ rev = "fixed"
             /\ resolved(q)
             /\ q.streamFailed
             /\ q.faults = 1
             /\ ~tooLarge(q.measured))
            => (/\ q.notice = "downloaded"
                /\ q.nMedia = 1
                /\ q.nSendFile = 1
                /\ ~q.errShown)

\* C3: in the fixed revision, once a request that entered downloadVideo has
\* resolved, no temp file it created is on disk, and it unlinked at most once.
C3_NoTempFileLeft ==
    \A r \in Requests :
        LET q == req[r]
        IN  (rev = "fixed" /\ q.nDownload >= 1)
            => (/\ q.nUnlink <= 1
                /\ (resolved(q) => filesOf(r) = {}))

\* C4: a request never has more than one status message, and once a request
\* that has its status message has resolved (looked at for requests that met
\* at most one fault) the message is deleted and the video was delivered, or
\* it is visible with error text and no video was delivered; it never stays
\* on a progress text.
C4_StatusFinal ==
    \A r \in Requests :
        LET q == req[r]
        IN  /\ q.nStatus <= 1
            /\ (resolved(q) /\ q.nStatus = 1 /\ q.faults <= 1 =>
                   \/ q.status = "deleted" /\ q.nSent >= 1
                   \/ /\ q.status = "visible"
                      /\ q.stext \in ErrorTexts
                      /\ q.nSent = 0)

\* C5: at most one sendVideo call succeeds per request.
C5_DeliveredOnce == \A r \in Requests : req[r].nSent <= 1

\* C6: for a request that has its status message, the failure of an
\* external call (looked at for requests that met at most one fault) never
\* leaves the handler as a rejected promise.
C6_NothingEscapes ==
    \A r \in Requests :
        LET q == req[r]
        IN  (resolved(q) /\ q.nStatus = 1 /\ q.faults <= 1) => ~q.escaped

\* C7: after a complete write, a file measured above 48 MB is never uploaded,
\* is removed from disk and gets the too-large text (shown whenever the
\* transport accepts that edit); a file of 48 MB or less gets exactly one
\* upload attempt.
C7_SizeCeiling ==
    /\ [](\A r \in Requests :
            LET q == req[r]
            IN  q.measured # -1 =>
                   IF q.measured > SizeLimitMB * MB
                   THEN /\ q.nSendFile = 0
                        /\ q.nTooLarge = 1
                        /\ ~exists(disk, q.path)
                   ELSE /\ q.nSendFile = 1
                        /\ q.nTooLarge = 0)
    /\ [][\A r \in Requests :
            (req[r].pc = "editTooLarge" /\ req'[r].pc = "done")
                => req'[r].stext = "tooLarge"]_vars

C7_Witness ==
    \E r \in Requests :
        /\ resolved(req[r])
        /\ req[r].measured = SizeLimitMB * MB + 1
        /\ req[r].stext = "tooLarge"
        /\ req[r].nUnlink = 1

\* C8: the handler first attempts streamVideo iff the duration is at most 120,
\* otherwise downloadVideo, and a request on the download path never streams.
C8_Routing ==
    \A r \in Requests :
        LET q == req[r]
        IN  q.first # "none" =>
               /\ q.first = "stream" <=> q.duration <= 120
               /\ q.first = "download" <=> q.duration >= 121
               /\ (q.first = "download" => q.nStream = 0 /\ q.nSendStream = 0)
               /\ (q.first = "stream" => q.nStream = 1)

C8_Witness ==
    \E r \in Requests :
        /\ req[r].duration = 120
        /\ req[r].first = "stream"
        /\ req[r].nSendStream = 1

\* C9: a text that validateURL rejects gets the invalid-link reply and
\* nothing else: no getInfo, no status message, no media stream, no temp
\* file, no sendVideo.
C9_InvalidLink ==
    \A r \in Requests :
        LET q == req[r]
        IN  (q.pc # "idle" /\ ~validateURL(q.url)) =>
               /\ q.pc \in {"replyInvalid", "done"}
               /\ (resolved(q) /\ ~q.escaped => q.invalidReply)
               /\ q.nGetInfo = 0 /\ q.nStatus = 0 /\ q.status = "none"
               /\ q.nStream = 0 /\ q.nDownload = 0 /\ q.nMedia = 0
               /\ q.nSendStream = 0 /\ q.nSendFile = 0 /\ q.nSent = 0
               /\ q.path = NoPath /\ q.wopen = "none" /\ filesOf(r) = {}

C9_Witness ==
    \E r \in Requests :
        /\ resolved(req[r])
        /\ req[r].text = <<"not-a-youtube-link">>
        /\ req[r].invalidReply

\* the request is inside downloadVideo with a temp file path of its own
usesFile(q) == q.pc \in {"transfer", "editTooLarge", "sendFile"}

\* C10: two requests in flight for the same title never use the same temp
\* file path.
C10_PathsDistinct ==
    \A r1, r2 \in Requests :
        (/\ r1 # r2
         /\ usesFile(req[r1]) /\ usesFile(req[r2])
         /\ req[r1].title = req[r2].title)
        => req[r1].path # req[r2].path

\* the failure texts of downloadVideo are on their way to the status message
reporting(q) == q.pc \in {"editTooLarge", "editDownloadFailed"}

C12_Shutdown ==
    /\ handled = {} => tempDir
    /\ handled # {} => ~tempDir /\ disk = EmptyDisk
    /\ \A r \in Requests :
         (resolved(req[r]) /\ req[r].hit = "download") =>
            /\ req[r].caught
            /\ req[r].notice # "downloaded"
            /\ filesOf(r) = {}

C12_Witness ==
    \E r \in Requests :
        /\ handled # {} /\ resolved(req[r])
        /\ req[r].hit = "download" /\ req[r].wopen = "open"
        /\ req[r].nSendFile = 1 /\ req[r].nUnlink = 0

\* C14: the temp file's name is a time prefix, a hyphen, the truncated title
\* with every character outside [a-zA-Z0-9] replaced by "_" (so of the
\* title's length) and ".mp4"; it holds no path separator and is no ".."
\* segment, so the path is the scratch directory plus that one segment.
C14_FileName ==
    \A r \in Requests :
        req[r].path # NoPath =>
           LET t == req[r].dl[2]
               p == req[r].path
               f == p[Len(p)]
               n == Len(f) - Len(t) - 4
           IN  /\ Len(p) = Len(tempDirPath) + 1
               /\ SubSeq(p, 1, Len(tempDirPath)) = tempDirPath
               /\ \E c \in Clock : SubSeq(f, 1, n) = str(c) \o <<"-">>
               /\ \A i \in 1..Len(t) :
                     f[n + i] = (IF t[i] \in Alnum THEN t[i] ELSE "_")
               /\ SubSeq(f, Len(f) - 3, Len(f)) = <<".", "m", "p", "4">>
               /\ \A i \in 1..Len(f) : f[i] # "/"
               /\ f # <<".", ".">>

C14_Witness ==
    \E r \in Requests :
        /\ req[r].title = <<"/", ".", ".", "/">>
        /\ req[r].path = tempDirPath \o << <<"1", "-", "_", "_", "_", "_", ".", "m", "p", "4">> >>
        /\ exists(disk, req[r].path)

\* C15: the title built into every status text and caption (preparing,
\* streaming, downloading, both captions, on the direct and on the fallback
\* path) is the first 50 characters of the metadata title: the whole title
\* when it has at most 50 characters.
C15_TitleShown ==
    \A r \in Requests : \A t \in req[r].shown :
        LET v == req[r].vtitle
        IN  /\ Len(t) = (IF Len(v) <= 50 THEN Len(v) ELSE 50)
            /\ \A i \in 1..Len(t) : t[i] = v[i]

C15_Witness ==
    \E r \in Requests :
        /\ Len(req[r].vtitle) = 51 /\ Cardinality(req[r].shown) = 1
        /\ req[r].nSendStream = 1 /\ req[r].nSendFile = 1

\* C16: in the fixed revision, for a request that has its status message
\* (looked at before any shutdown, for requests that met at most one fault),
\* every edit or delete of the status message is issued while the message
\* exists, so none after its deletion, and downloadVideo is never entered
\* without the status message.
C16_StatusTarget ==
    \A r \in Requests :
        LET q == req[r]
        IN  (rev = "fixed" /\ q.nStatus = 1 /\ q.faults <= 1 /\ handled = {}) =>
               /\ q.pc \in StatusCalls => msgExists(q)
               /\ q.nDownload >= 1 => q.argStatus

\* C17: a request (looked at before any shutdown, for requests that met at
\* most one fault) never has both a delivered video and a failure text on
\* its status message.
C17_NoErrorAfterDelivery ==
    \A r \in Requests :
        LET q == req[r]
        IN  (q.faults <= 1 /\ handled = {}) => ~(q.errShown /\ q.nSent >= 1)


\* the handler of a request takes no step: only the late completion of a
\* write stream's open and the record of a shutdown may still touch it
settled(q, q2) ==
    q2 = [q EXCEPT !.wopen = q2.wopen, !.faults = q2.faults, !.hit = q2.hit]

\* C18: when every external call eventually settles, a request that was
\* received eventually resolves; a resolved request stays resolved and its
\* handler takes no further step; streamVideo and downloadVideo are each
\* entered at most once, so there is no loop between them.
C18_Terminates ==
    /\ \A r \in Requests : (req[r].pc # "idle") ~> resolved(req[r])
    /\ [][\A r \in Requests :
            /\ req'[r].nStream <= 1 /\ req'[r].nDownload <= 1
            /\ resolved(req[r]) => settled(req[r], req'[r])]_vars

C18_Witness ==
    \E r \in Requests :
        /\ resolved(req[r]) /\ req[r].streamFailed
        /\ req[r].nStream = 1 /\ req[r].nDownload = 1 /\ req[r].nSent = 1

\* C13: given the same message and the same outcome of every external call,
\* the fixed revision ends as the older one did: the same delivery paths in
\* the same order, as many videos delivered, a temp file left or not, the
\* same kind of final status message.
C13_SameDesign ==
    (rev = "fixed" /\ quiet(2)) => summary(req[2], filesOf(2) # {}) = base

====
